---- MODULE Spec2Model ----
(***************************************************************************)
(* Quantum Battleships with partial NOT gates: the main loop of the        *)
(* notebook community/games/battleships_with_partial_NOT_gates.ipynb.      *)
(*                                                                         *)
(* Angles are kept exactly, in units of pi/6: math.pi is 6 units, so the   *)
(* three bomb angles pi/1, pi/2, pi/3 are 6, 3 and 2 units.  Probabilities *)
(* are kept in thousandths; sin^2 of every angle a ship can reach is a     *)
(* multiple of 1/4 and is therefore exact.                                 *)
(*                                                                         *)
(* The helpers of game_engines/battleships_engine.py (ask_for_ships,       *)
(* ask_for_bombs, display_grid) are imported by the notebook but are not   *)
(* part of the sources at hand; they are modelled from the specification.  *)
(***************************************************************************)
EXTENDS Integers, FiniteSets, Sequences, TLC

VARIABLES shipPos, bomb, qc, grid, game, outcome, pc, rounds, screen

vars == <<shipPos, bomb, qc, grid, game, outcome, pc, rounds, screen>>

----------------------------------------------------------------------------
(* Bounds of the model *)

\* rounds played under Spec (sampling noise present)
MaxRounds == 3
\* deviation of a sampled count from its expectation under Spec
MaxNoise == 1
\* rounds played under SpecExact (a fleet needs 1 + 2 + 3 = 6 hits)
MaxRoundsExact == 7
\* rounds played under SpecPrompt (the dialogue followed input by input)
MaxRoundsPrompt == 2
\* rounds played under SpecFleet (the six rounds it takes to destroy a fleet)
MaxRoundsFleet == 6
\* inputs that are not a position, typed in one round under SpecPrompt
MaxRetries == 2

----------------------------------------------------------------------------
(* Program constants *)

\* range(2): player X+1 is index X
Players == 0 .. 1
\* range(5): the five qubits / board positions
Positions == 0 .. 4
\* for ship in [0,1,2]
Ships == 0 .. 2
\* shots = 1024
shots == 1024
\* math.pi, in units of pi/6
Pi == 6
\* "Ships with 95% damage or more have been destroyed"
DestructionThreshold == 95

\* (player+1)%2
Opponent(player) == (player + 1) % 2

----------------------------------------------------------------------------
(* Setup: shipPos = ask_for_ships() *)

Placement(a, b, c) == [ship \in Ships |-> CASE ship = 0 -> a [] ship = 1 -> b [] ship = 2 -> c]

\* a player's three ships occupy three distinct positions of the board
ValidPlacement(f) ==
    /\ \A ship \in Ships : f[ship] \in Positions
    /\ \A s1, s2 \in Ships : s1 # s2 => f[s1] # f[s2]

\* shipPos[player][ship] for the placements of player 1 and of player 2
Setup(first, second) == [player \in Players |-> <<first, second>>[player + 1]]

\* the setups played in this model: two different fleets, two equal fleets
SetupChoices ==
    {Setup(Placement(0, 1, 2), Placement(2, 4, 0)),
     Setup(Placement(4, 2, 3), Placement(4, 2, 3))}

ask_for_ships == {sp \in SetupChoices : \A player \in Players : ValidPlacement(sp[player])}

----------------------------------------------------------------------------
(* The bomb ledger: bomb = ask_for_bombs( bomb ) *)

ZeroLedger == [player \in Players |-> [position \in Positions |-> 0]]

\* one target per player; each player's own row is incremented at the target
ask_for_bombs(b, target) ==
    [player \in Players |->
        [position \in Positions |->
            IF position = target[player] THEN b[player][position] + 1
            ELSE b[player][position]]]

\* what a player may type when asked for a position
Inputs == Positions \cup {-1, 5}

\* mutation: an input off the board is recorded at the nearest position
record_attackClamped(b, player, position) ==
    [b EXCEPT ![player][IF position < 0 THEN 0 ELSE IF position > 4 THEN 4 ELSE position] = @ + 1]

\* mutation: there is one ledger row, shared by the two players
record_attackSharedRow(b, player, position) ==
    IF position \in Positions
    THEN [b EXCEPT ![0][position] = @ + 1]
    ELSE b

\* one answer of one player: a position is counted in the player's own row,
\* anything else is rejected and nothing is counted
record_attack(b, player, position) ==
    IF position \in Positions
    THEN [b EXCEPT ![player][position] = @ + 1]
    ELSE b

----------------------------------------------------------------------------
(* The dialogue of ask_for_bombs, as the output cell of the main loop     *)
(* records it (blank lines left out)                                      *)

PressEnterLine == "> Press Enter to place some bombs..."

TurnLine(player) ==
    IF player = 0 THEN "It's now Player 1's turn." ELSE "It's now Player 2's turn."

ChooseLine == "Choose a position to bomb (0, 1, 2, 3 or 4)"

\* the rejection of an input that is not a position
InvalidPosition == "InvalidPosition"

\* the screen after `player` has typed `position`: the input is shown as
\* typed; a position ends the turn (and the next player, if any, is
\* prompted), anything else is rejected and the player is asked again
Dialogue(s, player, position) ==
    s \o <<ToString(position)>> \o
        (IF position \in Positions
         THEN IF player = 0 THEN <<TurnLine(1), ChooseLine>> ELSE <<>>
         ELSE <<InvalidPosition, ChooseLine>>)

\* the position of the program while `player` is being asked
TurnPc(player) == IF player = 0 THEN "player1" ELSE "player2"

----------------------------------------------------------------------------
(* The circuits: add the bombs (of the opposing player) *)

\* mutation: every bomb is a full NOT, whichever ship it hits
U3AngleFullNot(ship) == Pi

\* mutation: the fraction falls with the square of the order index
U3AngleSquared(ship) == Pi \div ((ship + 1) * (ship + 1))

\* mutation: the third ship is bombed with the angle of the second
U3AngleThirdAsSecond(ship) == IF ship = 2 THEN Pi \div 2 ELSE Pi \div (ship + 1)

\* frac * math.pi with frac = 1/(ship+1)
U3Angle(ship) == Pi \div (ship + 1)

\* mutation: a bomb on a position that holds no ship is applied as a full NOT
ShipLoopElse(sp, player, position, ship) ==
    LET hit == {s \in ship .. 2 : position = sp[player][s]}
    IN  IF hit = {} THEN Pi ELSE U3Angle(CHOOSE s \in hit : TRUE)

RECURSIVE ShipLoop(_, _, _, _)
\* for ship in [0,1,2]: if position == shipPos[player][ship]: u3(frac*pi)
\* the angle one bomb at this position adds to the qubit, ships from `ship` on
ShipLoop(sp, player, position, ship) ==
    IF ship > 2 THEN 0
    ELSE (IF position = sp[player][ship] THEN U3Angle(ship) ELSE 0)
         + ShipLoop(sp, player, position, ship + 1)

\* mutation: the rotation of a qubit stops at a full NOT
BombLoopCapped(sp, player, position, n) ==
    LET total == n * ShipLoop(sp, player, position, 0)
    IN  IF total > Pi THEN Pi ELSE total

RECURSIVE BombLoop(_, _, _, _)
\* for n in range( bomb[(player+1)%2][position] ): ...
BombLoop(sp, player, position, n) ==
    IF n = 0 THEN 0
    ELSE BombLoop(sp, player, position, n - 1) + ShipLoop(sp, player, position, 0)

\* mutation: the bombs are read from the player's own row of the ledger
BuildCircuitsOwnRow(sp, b) ==
    [player \in Players |->
        [position \in Positions |->
            BombLoop(sp, player, position, b[player][position])]]

\* mutation: the bombs of both players at a position are applied to the qubit
BuildCircuitsBothRows(sp, b) ==
    [player \in Players |->
        [position \in Positions |->
            BombLoop(sp, player, position,
                     b[Opponent(player)][position] + b[player][position])]]

\* qc[player]: the total Y rotation applied to each qubit before measurement
BuildCircuits(sp, b) ==
    [player \in Players |->
        [position \in Positions |->
            BombLoop(sp, player, position, b[Opponent(player)][position])]]

----------------------------------------------------------------------------
(* Measurement: execute(qc, backend=device, shots=shots) *)

\* sin^2(theta/2) in thousandths, theta in units of pi/6.  The angles 1, 5, 7
\* and 11 (mod 12) need two ships on one qubit and are rounded.
Sin2Half(theta) ==
    CASE theta % 12 = 0 -> 0
      [] theta % 12 \in {2, 10} -> 250
      [] theta % 12 \in {3, 9} -> 500
      [] theta % 12 \in {4, 8} -> 750
      [] theta % 12 = 6 -> 1000
      [] theta % 12 \in {1, 11} -> 67
      [] theta % 12 \in {5, 7} -> 933

\* probability 1: what a full NOT gives
Certain == Sin2Half(Pi)

\* mutation: readout noise, also on a qubit that was never rotated
CountsReadoutNoise(p, noise) ==
    IF p = Certain THEN {shots}
    ELSE LET expected == (p * shots) \div Certain
         IN  {c \in {expected - noise, expected, expected + noise} : c >= 0 /\ c <= shots}

\* the counts of 1s a qubit of probability p gives in `shots` samples: the
\* expected count, or a count `noise` below or above it; p = 0 and p = 1
\* leave no noise
Counts(p, noise) ==
    IF p = 0 THEN {0}
    ELSE IF p = Certain THEN {shots}
    ELSE LET expected == (p * shots) \div Certain
         IN  {c \in {expected - noise, expected, expected + noise} : c >= 0 /\ c <= shots}

\* the counts per qubit one circuit can give: every qubit is sampled on its own
CircuitResults(circuit, noise) ==
    {[position \in Positions |-> <<c0, c1, c2, c3, c4>>[position + 1]] :
        c0 \in Counts(Sin2Half(circuit[0]), noise),
        c1 \in Counts(Sin2Half(circuit[1]), noise),
        c2 \in Counts(Sin2Half(circuit[2]), noise),
        c3 \in Counts(Sin2Half(circuit[3]), noise),
        c4 \in Counts(Sin2Half(circuit[4]), noise)}

\* job.result().get_counts(qc[player]), as the number of samples with a 1 per qubit
Results(circuits, noise) ==
    {[player \in Players |-> <<g0, g1>>[player + 1]] :
        g0 \in CircuitResults(circuits[0], noise),
        g1 \in CircuitResults(circuits[1], noise)}

----------------------------------------------------------------------------
(* Reporting: game = display_grid ( grid, shipPos, shots ) *)

\* mutation: the percentage is truncated, int(100 * successes / N)
PercentTruncated(count) == (100 * count) \div shots

\* round(100 * successes / N), rounding half to even
Percent(count) ==
    LET q == (100 * count) \div shots
        r == (100 * count) % shots
    IN  IF 2 * r > shots THEN q + 1
        ELSE IF 2 * r = shots THEN q + (q % 2)
        ELSE q

Damage(g, sp, player, ship) == Percent(g[player][sp[player][ship]])

Destroyed(g, sp, player, ship) == Damage(g, sp, player, ship) >= DestructionThreshold

AllDestroyed(g, sp, player) == \A ship \in Ships : Destroyed(g, sp, player, ship)

\* a cell of the report: a damage percentage, or unknown (shown as " ?  ")
Unknown == [known |-> FALSE, percent |-> 0]
Shown(percent) == [known |-> TRUE, percent |-> percent]

\* mutation: a percentage is shown for every position of the board
ReportAllPositions(g, sp, player) ==
    [position \in Positions |-> Shown(Percent(g[player][position]))]

\* show_round_result: per position of a player's board the damage percentage
\* of the ship there, unknown where no ship is or nothing was measured
Report(g, sp, player) ==
    [position \in Positions |->
        IF (\A ship \in Ships : sp[player][ship] # position) \/ g[player][position] = 0
        THEN Unknown
        ELSE Shown(Percent(g[player][position]))]

\* mutation: the first destroyed fleet found decides the outcome
GameOutcomeFirst(g, sp) ==
    CASE AllDestroyed(g, sp, 0) -> "player2"
      [] AllDestroyed(g, sp, 1) -> "player1"
      [] OTHER -> "none"

\* show_game_over(winner | draw): the player whose fleet survived wins
GameOutcome(g, sp) ==
    CASE AllDestroyed(g, sp, 0) /\ AllDestroyed(g, sp, 1) -> "draw"
      [] AllDestroyed(g, sp, 0) /\ ~AllDestroyed(g, sp, 1) -> "player2"
      [] ~AllDestroyed(g, sp, 0) /\ AllDestroyed(g, sp, 1) -> "player1"
      [] OTHER -> "none"

\* the value display_grid returns: is the game still on
display_grid(g, sp) == GameOutcome(g, sp) = "none"

----------------------------------------------------------------------------
(* The main loop *)

Init ==
    /\ shipPos \in ask_for_ships
    /\ game = TRUE
    /\ bomb = ZeroLedger
    /\ grid = [player \in Players |-> [position \in Positions |-> 0]]
    /\ qc = [player \in Players |-> [position \in Positions |-> 0]]
    /\ outcome = "none"
    /\ pc = "ask_for_bombs"
    /\ rounds = 0
    /\ screen = <<>>

\* mutation: a fresh ledger is handed to ask_for_bombs in every round
AskForBombsFresh(maxRounds) ==
    /\ pc = "ask_for_bombs"
    /\ rounds < maxRounds
    /\ game
    /\ \E target \in [Players -> Positions] : bomb' = ask_for_bombs(ZeroLedger, target)
    /\ rounds' = rounds + 1
    /\ pc' = "execute"
    /\ UNCHANGED <<shipPos, qc, grid, game, outcome, screen>>

\* mutation: the players are asked for bombs twice in a round
AskForBombsTwice(maxRounds) ==
    /\ pc = "ask_for_bombs"
    /\ rounds < maxRounds
    /\ game
    /\ \E first, second \in [Players -> Positions] :
            bomb' = ask_for_bombs(ask_for_bombs(bomb, first), second)
    /\ rounds' = rounds + 1
    /\ pc' = "execute"
    /\ UNCHANGED <<shipPos, qc, grid, game, outcome, screen>>

\* mutation: the results are shown before the job has been built and run
AskForBombsSkipExecute(maxRounds) ==
    /\ pc = "ask_for_bombs"
    /\ rounds < maxRounds
    /\ game
    /\ \E target \in [Players -> Positions] : bomb' = ask_for_bombs(bomb, target)
    /\ rounds' = rounds + 1
    /\ pc' = "display_grid"
    /\ UNCHANGED <<shipPos, qc, grid, game, outcome, screen>>

\* mutation: the loop does not test `game`
AskForBombsNoGuard(maxRounds) ==
    /\ pc = "ask_for_bombs"
    /\ rounds < maxRounds
    /\ \E target \in [Players -> Positions] : bomb' = ask_for_bombs(bomb, target)
    /\ rounds' = rounds + 1
    /\ pc' = "execute"
    /\ UNCHANGED <<shipPos, qc, grid, game, outcome, screen>>

\* while (game): bomb = ask_for_bombs( bomb ); at most maxRounds rounds are played.
\* The call as one step, both players answering with a position; its dialogue
\* is followed by PressEnter and Choose below and is not kept here.
AskForBombs(maxRounds) ==
    /\ pc = "ask_for_bombs"
    /\ rounds < maxRounds
    /\ game
    /\ \E target \in [Players -> Positions] : bomb' = ask_for_bombs(bomb, target)
    /\ rounds' = rounds + 1
    /\ pc' = "execute"
    /\ UNCHANGED <<shipPos, qc, grid, game, outcome, screen>>

\* mutation: the bombs applied to the circuits are taken off the ledger
ExecuteConsume(noise) ==
    /\ pc = "execute"
    /\ qc' = BuildCircuits(shipPos, bomb)
    /\ grid' \in Results(qc', noise)
    /\ pc' = "display_grid"
    /\ bomb' = ZeroLedger
    /\ UNCHANGED <<shipPos, game, outcome, rounds, screen>>

\* build qc for both players, run the job and extract the data
Execute(noise) ==
    /\ pc = "execute"
    /\ qc' = BuildCircuits(shipPos, bomb)
    /\ grid' \in Results(qc', noise)
    /\ pc' = "display_grid"
    /\ UNCHANGED <<shipPos, bomb, game, outcome, rounds, screen>>

\* game = display_grid ( grid, shipPos, shots )
DisplayGrid ==
    /\ pc = "display_grid"
    /\ game' = display_grid(grid, shipPos)
    /\ outcome' = GameOutcome(grid, shipPos)
    /\ pc' = "ask_for_bombs"
    /\ UNCHANGED <<shipPos, bomb, qc, grid, rounds, screen>>

Next ==
    \/ AskForBombs(MaxRounds)
    \/ Execute(MaxNoise)
    \/ DisplayGrid

Spec == Init /\ [][Next]_vars

\* the simulator returning exactly the expected counts
NextExact ==
    \/ AskForBombs(MaxRoundsExact)
    \/ Execute(0)
    \/ DisplayGrid

\* the long games are played on one setup, the two fleets placed differently
InitExact ==
    /\ Init
    /\ shipPos = Setup(Placement(0, 1, 2), Placement(2, 4, 0))

SpecExact == InitExact /\ [][NextExact]_vars

\* the games of SpecExact up to the first round in which a fleet can be lost
NextFleet ==
    \/ AskForBombs(MaxRoundsFleet)
    \/ Execute(0)
    \/ DisplayGrid

SpecFleet == InitExact /\ [][NextFleet]_vars

\* The report as a function of the sample: the first round has been run,
\* player 1 has bombed the second ship of player 2 (probability 1/2) and
\* player 2 an empty position; the sample of that ship is any count of 1s.
InitSampled ==
    /\ shipPos = Setup(Placement(0, 1, 2), Placement(2, 4, 0))
    /\ game = TRUE
    /\ bomb = ask_for_bombs(ZeroLedger, [player \in Players |-> <<4, 3>>[player + 1]])
    /\ qc = BuildCircuits(shipPos, bomb)
    /\ \E count \in 0 .. shots :
            grid = [player \in Players |-> [position \in Positions |->
                        IF player = 1 /\ position = 4 THEN count ELSE 0]]
    /\ outcome = "none"
    /\ pc = "display_grid"
    /\ rounds = 1
    /\ screen = <<>>

NextSampled ==
    \/ DisplayGrid
    \/ AskForBombs(MaxRounds)
    \/ Execute(0)

SpecSampled == InitSampled /\ [][NextSampled]_vars

\* The call bomb = ask_for_bombs( bomb ) input by input.

\* inputs rejected so far in the round
Retries == Cardinality({i \in DOMAIN screen : screen[i] = InvalidPosition})

\* the call begins: the screen of the round starts with the first prompt
PressEnter(maxRounds) ==
    /\ pc = "ask_for_bombs"
    /\ rounds < maxRounds
    /\ game
    /\ screen' = <<PressEnterLine, TurnLine(0), ChooseLine>>
    /\ rounds' = rounds + 1
    /\ pc' = TurnPc(0)
    /\ UNCHANGED <<shipPos, bomb, qc, grid, game, outcome>>

\* the player whose turn it is types an input; the call returns when the
\* second player has typed a position
Choose(inputs, maxRetries) ==
    \E player \in Players, position \in inputs :
        /\ pc = TurnPc(player)
        /\ position \notin Positions => Retries < maxRetries
        /\ bomb' = record_attack(bomb, player, position)
        /\ screen' = Dialogue(screen, player, position)
        /\ pc' = IF position \notin Positions THEN pc
                 ELSE IF player = 0 THEN TurnPc(1) ELSE "execute"
        /\ UNCHANGED <<shipPos, qc, grid, game, outcome, rounds>>

NextPrompt ==
    \/ PressEnter(MaxRoundsPrompt)
    \/ Choose(Inputs, MaxRetries)
    \/ Execute(0)
    \/ DisplayGrid

SpecPrompt == InitExact /\ [][NextPrompt]_vars

----------------------------------------------------------------------------
(* Derived quantities the properties speak about *)

\* attacks_on: the attacks the opponent has recorded on the position of a ship
Attacks(player, ship) == bomb[Opponent(player)][shipPos[player][ship]]

\* the rotation of the qubit of a ship in the circuits built last
Rotation(player, ship) == qc[player][shipPos[player][ship]]

\* the circuits and the results are those of the current ledger
Resolved == pc # "execute"

\* a position of the board of `player` that holds none of the player's ships
Empty(player, position) == \A ship \in Ships : shipPos[player][ship] # position

----------------------------------------------------------------------------
(* C1 *)

\* C1 (as claimed): a ship whose rotation has reached pi and which the last
\* report showed destroyed is shown destroyed by the next report as well,
\* whatever the targets of the round; by induction, in every later round.
C1_DestructionPermanent ==
    [][\A player \in Players, ship \in Ships :
        (/\ pc = "execute"
         /\ Rotation(player, ship) >= Pi
         /\ Destroyed(grid, shipPos, player, ship))
        => Destroyed(grid', shipPos, player, ship)]_vars

----------------------------------------------------------------------------
(* C2 *)

\* C2 (as claimed): from one round to the next the destruction probability
\* sin^2(rotation/2) of every ship is greater than or equal to what it was.
C2_ProbabilityMonotone ==
    [][\A player \in Players, ship \in Ships :
        Sin2Half(qc'[player][shipPos[player][ship]]) >= Sin2Half(Rotation(player, ship))]_vars

----------------------------------------------------------------------------
(* C3 *)

\* C3: when the attack count on a ship's position equals its order index
\* (ship + 1), its rotation is exactly pi, its probability exactly 1, all
\* `shots` samples are 1, the damage is 100% and the ship is destroyed.
C3_ExactAtFullRotation ==
    Resolved =>
        \A player \in Players, ship \in Ships :
            Attacks(player, ship) = ship + 1 =>
                /\ Rotation(player, ship) = Pi
                /\ Sin2Half(Rotation(player, ship)) = Certain
                /\ grid[player][shipPos[player][ship]] = shots
                /\ Damage(grid, shipPos, player, ship) = 100
                /\ Destroyed(grid, shipPos, player, ship)

\* the third ship has taken exactly its three bombs, in a round in which the
\* sample of another ship deviates from its expectation
C3_Witness ==
    /\ pc = "display_grid"
    /\ \E player \in Players :
        /\ Attacks(player, 2) = 3
        /\ Destroyed(grid, shipPos, player, 2)
        /\ \E other \in Players, ship \in Ships :
            /\ Sin2Half(Rotation(other, ship)) \notin {0, Certain}
            /\ grid[other][shipPos[other][ship]] * Certain
                 # Sin2Half(Rotation(other, ship)) * shots

----------------------------------------------------------------------------
(* C4 *)

\* C4: in every round the rotation of the qubit of every ship of every
\* defending player is (attacks the opponent recorded on its position) *
\* (1 / order index) * pi, taken from the opponent's row of the ledger.
C4_RotationFromOpponentLedger ==
    Resolved =>
        \A player \in Players, ship \in Ships :
            Rotation(player, ship) * (ship + 1)
                = bomb[Opponent(player)][shipPos[player][ship]] * Pi

\* a ship bombed twice whose owner has recorded another count on that position
C4_Witness ==
    /\ pc = "display_grid"
    /\ \E player \in Players, ship \in Ships :
        /\ Attacks(player, ship) = 2
        /\ bomb[player][shipPos[player][ship]] # 2
        /\ Rotation(player, ship) = 2 * U3Angle(ship)

----------------------------------------------------------------------------
(* C5 *)

\* C5: every cell of the ledger is a non-negative integer and no step of the
\* loop lowers it.
C5_LedgerNeverDecreases ==
    /\ [](bomb \in [Players -> [Positions -> Nat]])
    /\ [][\A player \in Players, position \in Positions :
            bomb'[player][position] >= bomb[player][position]]_vars

\* a cell that was raised in two different rounds
C5_Witness ==
    /\ rounds >= 2
    /\ \E player \in Players, position \in Positions : bomb[player][position] >= 2

----------------------------------------------------------------------------
(* C6 *)

RECURSIVE RowSum(_, _)
RowSum(row, n) == IF n = 0 THEN 0 ELSE row[n - 1] + RowSum(row, n - 1)

\* C6: a round raises exactly one cell of each player's row by 1 and leaves
\* the other cells alone; each row sums to the number of rounds played and
\* the ledger keeps its 2 x 5 cells.
C6_OneAttackPerPlayerPerRound ==
    /\ [](/\ DOMAIN bomb = Players
          /\ \A player \in Players :
                /\ DOMAIN bomb[player] = Positions
                /\ RowSum(bomb[player], 5) = rounds)
    /\ [][bomb' # bomb =>
            \A player \in Players :
                \E target \in Positions :
                    bomb'[player] = [bomb[player] EXCEPT ![target] = @ + 1]]_vars

\* three rounds played, the two players having spread their attacks differently
C6_Witness ==
    /\ rounds = 3
    /\ \E position \in Positions : bomb[0][position] = 3
    /\ \A position \in Positions : bomb[1][position] <= 1

----------------------------------------------------------------------------
(* C7 *)

\* C7: after a round's report the game is over exactly when all three ships
\* of at least one player are destroyed in that report, and otherwise the
\* next targets are collected (within the rounds of the model); once the game is over no targets are
\* collected and the ledger never changes again.
C7_GameOverIffFleetDestroyed ==
    /\ []((pc = "ask_for_bombs" /\ rounds > 0) =>
            /\ (~game) <=> (\E player \in Players : AllDestroyed(grid, shipPos, player))
            /\ (game /\ rounds < MaxRoundsExact) => ENABLED AskForBombs(MaxRoundsExact))
    /\ [][(~game) => (bomb' = bomb /\ rounds' = rounds /\ ~game')]_vars

\* the game has ended with one fleet destroyed and the other not
C7_Witness ==
    /\ pc = "ask_for_bombs"
    /\ ~game
    /\ \E player \in Players :
        /\ AllDestroyed(grid, shipPos, player)
        /\ ~AllDestroyed(grid, shipPos, Opponent(player))

----------------------------------------------------------------------------
(* C8 *)

\* C8: if a round's report shows all three ships of player 1 and all three
\* ships of player 2 destroyed, the outcome reported is a draw, not a win.
C8_DrawReported ==
    (/\ pc = "ask_for_bombs"
     /\ rounds > 0
     /\ AllDestroyed(grid, shipPos, 0)
     /\ AllDestroyed(grid, shipPos, 1))
    => (outcome = "draw" /\ ~game)

\* both fleets are destroyed by the same round's report
C8_Witness ==
    /\ pc = "ask_for_bombs"
    /\ rounds > 0
    /\ AllDestroyed(grid, shipPos, 0)
    /\ AllDestroyed(grid, shipPos, 1)
    /\ outcome = "draw"

----------------------------------------------------------------------------
(* C9 *)

\* C9 (as claimed): for equal attack counts k >= 1, a ship of order index 1
\* has 3 times the rotation of a ship of order index 3 and a strictly higher
\* destruction probability.
C9_FirstShipStrictlyWeaker ==
    Resolved =>
        \A p1, p3 \in Players :
            (Attacks(p1, 0) = Attacks(p3, 2) /\ Attacks(p1, 0) >= 1) =>
                /\ Rotation(p1, 0) = 3 * Rotation(p3, 2)
                /\ Sin2Half(Rotation(p1, 0)) > Sin2Half(Rotation(p3, 2))

\* C9 (amended): for equal attack counts k >= 1, a ship of order index 1 has
\* 3 times the rotation of a ship of order index 3; its destruction
\* probability is strictly higher exactly when k mod 6 is 1 or 5, is equal
\* (both 1) when k mod 6 is 3, and is lower or equal (it is 0) when k is even.
C9_FirstShipRotationTriple ==
    Resolved =>
        \A p1, p3 \in Players :
            LET k == Attacks(p1, 0)
                prob1 == Sin2Half(Rotation(p1, 0))
                prob3 == Sin2Half(Rotation(p3, 2))
            IN  (k = Attacks(p3, 2) /\ k >= 1) =>
                    /\ Rotation(p1, 0) = 3 * Rotation(p3, 2)
                    /\ (prob1 > prob3) <=> (k % 6 \in {1, 5})
                    /\ (k % 6 = 3) => (prob1 = Certain /\ prob3 = Certain)
                    /\ (k % 2 = 0) => prob1 = 0

\* a first and a third ship with five bombs each: the first is the weaker again
C9_Witness ==
    /\ pc = "display_grid"
    /\ \E p1, p3 \in Players :
        /\ Attacks(p1, 0) = 5
        /\ Attacks(p3, 2) = 5
        /\ Sin2Half(Rotation(p1, 0)) > Sin2Half(Rotation(p3, 2))

----------------------------------------------------------------------------
(* C10 *)

\* the ledger without the attacks on positions where the defender has no ship
Hits(b) ==
    [player \in Players |->
        [position \in Positions |->
            IF Empty(Opponent(player), position) THEN 0 ELSE b[player][position]]]

\* C10: attacks on a position where the defender has no ship have no effect:
\* in every round the qubit of such a position is not rotated and measures 0
\* in every sample, and the rotation (hence the probability and the possible
\* reports) of every ship is what it is without those attacks.
C10_MissesHaveNoEffect ==
    Resolved =>
        /\ \A player \in Players, position \in Positions :
            Empty(player, position) =>
                (qc[player][position] = 0 /\ grid[player][position] = 0)
        /\ \A player \in Players, ship \in Ships :
            /\ Rotation(player, ship)
                 = BuildCircuits(shipPos, Hits(bomb))[player][shipPos[player][ship]]
            /\ Rotation(player, ship) = Attacks(player, ship) * U3Angle(ship)

\* a player has been bombed on an empty position twice and on a ship once
C10_Witness ==
    /\ pc = "display_grid"
    /\ \E player \in Players, position \in Positions, ship \in Ships :
        /\ Empty(player, position)
        /\ bomb[Opponent(player)][position] = 2
        /\ Attacks(player, ship) = 1
        /\ Rotation(player, ship) = U3Angle(ship)

----------------------------------------------------------------------------
(* C11 *)

\* C11: in every round's report a position of a player's board that the
\* opponent has never attacked is reported as unknown, never as a damage
\* percentage (not even 0%).
C11_NeverAttackedUnknown ==
    Resolved =>
        \A player \in Players, position \in Positions :
            bomb[Opponent(player)][position] = 0 =>
                Report(grid, shipPos, player)[position] = Unknown

\* after three rounds a ship that was never attacked stands next to one of
\* the same fleet whose damage is shown
C11_Witness ==
    /\ pc = "ask_for_bombs"
    /\ rounds = 3
    /\ \E player \in Players, s1, s2 \in Ships :
        /\ Attacks(player, s1) = 0
        /\ Report(grid, shipPos, player)[shipPos[player][s1]] = Unknown
        /\ Attacks(player, s2) > 0
        /\ Report(grid, shipPos, player)[shipPos[player][s2]].known

----------------------------------------------------------------------------
(* C12 *)

\* C12: a position that has been attacked but holds no ship of the defending
\* player is reported as unknown in every round's report; no damage
\* percentage is reported for a position without a ship.
C12_AttackedEmptyUnknown ==
    Resolved =>
        \A player \in Players, position \in Positions :
            Empty(player, position) =>
                Report(grid, shipPos, player)[position] = Unknown

\* an empty position bombed three times, still unknown in the report
C12_Witness ==
    /\ pc = "ask_for_bombs"
    /\ \E player \in Players, position \in Positions :
        /\ Empty(player, position)
        /\ bomb[Opponent(player)][position] = 3
        /\ Report(grid, shipPos, player)[position] = Unknown

----------------------------------------------------------------------------
(* C13 *)

\* C13: in every round's report a ship is marked destroyed if and only if
\* its damage percentage, 100 * successes / N rounded to the nearest integer
\* with 0 <= successes <= N, is at least 95, that is if and only if
\* 100 * successes / N >= 94.5; the mark is a function of the round's own
\* measurement.
C13_DestroyedIffNinetyFive ==
    \A player \in Players, ship \in Ships :
        LET count == grid[player][shipPos[player][ship]]
            damage == Damage(grid, shipPos, player, ship)
        IN  /\ count \in 0 .. shots
            /\ damage \in 0 .. 100
            /\ 2 * (damage * shots - 100 * count) <= shots
            /\ 2 * (100 * count - damage * shots) <= shots
            /\ Destroyed(grid, shipPos, player, ship)
                 <=> (200 * count >= (2 * DestructionThreshold - 1) * shots)
            /\ Destroyed(grid, shipPos, player, ship) <=> damage >= DestructionThreshold

\* 968 of 1024 samples are 94.53%: reported as 95% and destroyed
C13_Witness ==
    /\ pc = "ask_for_bombs"
    /\ \E player \in Players, ship \in Ships :
        /\ 100 * grid[player][shipPos[player][ship]] < DestructionThreshold * shots
        /\ Damage(grid, shipPos, player, ship) = DestructionThreshold
        /\ Destroyed(grid, shipPos, player, ship)

----------------------------------------------------------------------------
(* C14 *)

\* C14: every round collects the targets, then resolves, then reports, in
\* that order: both players' attacks of the round are in the ledger before
\* the circuits are built, the circuits and results of the round are those of
\* the ledger with these attacks, and `game` is decided only by the report,
\* after which the next round starts or the game is over.
C14_PhasesInOrder ==
    /\ [](pc = "execute" => \A player \in Players : RowSum(bomb[player], 5) = rounds)
    /\ [](pc = "display_grid" =>
            /\ \A player \in Players : RowSum(bomb[player], 5) = rounds
            /\ \A player \in Players, ship \in Ships :
                    Rotation(player, ship) * (ship + 1) = Attacks(player, ship) * Pi
            /\ \A player \in Players, position \in Positions :
                    grid[player][position] \in Counts(Sin2Half(qc[player][position]), MaxNoise))
    /\ [][/\ pc = "ask_for_bombs" => pc' = "execute" /\ rounds' = rounds + 1
          /\ pc = "execute" => pc' = "display_grid" /\ bomb' = bomb
          /\ pc = "display_grid" =>
                /\ pc' = "ask_for_bombs"
                /\ grid' = grid
                /\ bomb' = bomb
                /\ game' = ~\E player \in Players : AllDestroyed(grid, shipPos, player)
          /\ game' # game => pc = "display_grid"]_vars

\* the first round is being reported: the only attack on a ship is this
\* round's, and the circuit and the sample show it
C14_Witness ==
    /\ pc = "display_grid"
    /\ rounds = 1
    /\ \E player \in Players, ship \in Ships :
        /\ Attacks(player, ship) = 1
        /\ Rotation(player, ship) = U3Angle(ship)
        /\ grid[player][shipPos[player][ship]] > 0

----------------------------------------------------------------------------
(* C15 *)

\* C15: after the setup the ship registry never changes, and resolving and
\* reporting change neither the registry nor the ledger, so the attack counts
\* and resiliences read between two recordings are the same at every read.
C15_RegistryAndLedgerFrame ==
    /\ [](shipPos \in ask_for_ships)
    /\ [][/\ shipPos' = shipPos
          /\ pc # "ask_for_bombs" =>
                /\ bomb' = bomb
                /\ \A player \in Players, ship \in Ships :
                        Attacks(player, ship)' = Attacks(player, ship)]_vars

\* three rounds resolved and reported, the ledger holding all six attacks
C15_Witness ==
    /\ pc = "ask_for_bombs"
    /\ rounds = 3
    /\ shipPos \in ask_for_ships
    /\ \A player \in Players : RowSum(bomb[player], 5) = 3
    /\ \E player \in Players, ship \in Ships : Attacks(player, ship) = 3

----------------------------------------------------------------------------
(* C16 *)

\* C16: an input outside 0..4 is rejected with InvalidPosition, leaves every
\* cell of the ledger as it was and does not end the session: the same player
\* is asked again, and when the call returns every player has recorded
\* exactly one attack in the round.
C16_InvalidPositionRejected ==
    /\ [][\A player \in Players : pc = TurnPc(player) =>
            \E position \in Inputs :
                /\ screen' = Dialogue(screen, player, position)
                /\ IF position \in Positions
                   THEN /\ bomb'[player][position] = bomb[player][position] + 1
                        /\ RowSum(bomb'[player], 5) = RowSum(bomb[player], 5) + 1
                        /\ pc' # pc
                   ELSE /\ bomb' = bomb
                        /\ screen'[Len(screen') - 1] = InvalidPosition
                        /\ screen'[Len(screen')] = ChooseLine
                        /\ pc' = pc
                        /\ game' /\ rounds' = rounds]_vars
    /\ [](pc = "execute" => \A player \in Players : RowSum(bomb[player], 5) = rounds)

\* the call has returned after both players typed an input off the board
\* first: each has recorded one attack
C16_Witness ==
    /\ pc = "execute"
    /\ rounds = 1
    /\ \E i, j \in DOMAIN screen :
        /\ i < j
        /\ screen[i] = InvalidPosition
        /\ screen[j] = TurnLine(1)
        /\ \E k \in DOMAIN screen : k > j /\ screen[k] = InvalidPosition
    /\ \A player \in Players : RowSum(bomb[player], 5) = 1

----------------------------------------------------------------------------
(* C17 *)

\* C17: what is on the screen when player 2 is asked for a target is the same
\* whichever position player 1 has chosen in the round.
C17_SecondPlayerViewIndependent ==
    [][pc = TurnPc(0) /\ pc' = TurnPc(1) =>
            \A position \in Positions : screen' = Dialogue(screen, 0, position)]_vars

----------------------------------------------------------------------------
(* C18 *)

\* C18: for every ledger the game reaches and every pair of targets,
\* recording player 1's target and then player 2's gives the ledger that
\* recording them in the other order gives, which is the ledger ask_for_bombs
\* returns; a recording leaves the row of the other player as it was.
C18_RecordingsCommute ==
    \A first, second \in Positions :
        /\ record_attack(record_attack(bomb, 0, first), 1, second)
                = record_attack(record_attack(bomb, 1, second), 0, first)
        /\ record_attack(record_attack(bomb, 0, first), 1, second)
                = ask_for_bombs(bomb, [player \in Players |-> <<first, second>>[player + 1]])
        /\ \A player \in Players :
                record_attack(bomb, player, first)[Opponent(player)] = bomb[Opponent(player)]

\* both players have recorded the same position twice
C18_Witness ==
    /\ pc = "execute"
    /\ rounds = 2
    /\ \E position \in Positions : \A player \in Players : bomb[player][position] = 2

----------------------------------------------------------------------------
(* C19 *)

\* C19: the rotation of a ship in the circuits of a round is the one the
\* circuits give that ship in any session with the same placement of the
\* player and the same count of opponent's attacks at the ship's position,
\* whatever the opponent's placement, the player's own attacks and the
\* opponent's attacks on the other positions are; so is its exact probability.
\* The sessions compared with: the ship attacked alone; every fleet of the
\* opponent, the player having bombed every position once more and the
\* opponent another position once more.
C19_RotationDependsOnOwnShipOnly ==
    Resolved =>
        \A player \in Players, ship \in Ships :
            LET position == shipPos[player][ship]
                alone == [ZeroLedger EXCEPT ![Opponent(player)][position] = Attacks(player, ship)]
            IN  /\ BuildCircuits(shipPos, alone)[player][position] = Rotation(player, ship)
                /\ \A other \in ask_for_ships, elsewhere \in Positions \ {position} :
                    LET sp == [shipPos EXCEPT ![Opponent(player)] = other[Opponent(player)]]
                        b == [bomb EXCEPT ![player] = [own \in Positions |-> @[own] + 1],
                                          ![Opponent(player)][elsewhere] = @ + 1]
                        rotation == BuildCircuits(sp, b)[player][position]
                    IN  /\ rotation = Rotation(player, ship)
                        /\ Sin2Half(rotation) = Sin2Half(Rotation(player, ship))

\* a ship has been hit while its owner bombed the same position of the other
\* board and the opponent also bombed another position
C19_Witness ==
    /\ pc = "display_grid"
    /\ \E player \in Players, ship \in Ships :
        /\ Attacks(player, ship) >= 1
        /\ Rotation(player, ship) = Attacks(player, ship) * U3Angle(ship)
        /\ bomb[player][shipPos[player][ship]] >= 1
        /\ \E elsewhere \in Positions \ {shipPos[player][ship]} :
                bomb[Opponent(player)][elsewhere] >= 1

----------------------------------------------------------------------------
(* C20 *)

\* C20: the rotation keeps accumulating past pi.  A ship of order index
\* ship + 1 that has received 2 * (ship + 1) attacks has rotation 2 * pi and
\* probability 0, and none of its samples is 1; the probability after k
\* attacks is the probability after k + 2 * (ship + 1) attacks.
C20_RotationPeriodic ==
    Resolved =>
        \A player \in Players, ship \in Ships :
            LET position == shipPos[player][ship]
                period == 2 * (ship + 1)
            IN  /\ Rotation(player, ship) = Attacks(player, ship) * U3Angle(ship)
                /\ Attacks(player, ship) = period =>
                        /\ Rotation(player, ship) = 2 * Pi
                        /\ Sin2Half(Rotation(player, ship)) = 0
                        /\ grid[player][position] = 0
                /\ Sin2Half(Rotation(player, ship))
                        = Sin2Half((Attacks(player, ship) + period) * U3Angle(ship))
                /\ Attacks(player, ship) >= period =>
                        Sin2Half(Rotation(player, ship))
                            = Sin2Half((Attacks(player, ship) - period) * U3Angle(ship))

\* the third ship of a player has received six attacks: it was destroyed by
\* the third and shows no damage after the sixth
C20_Witness ==
    /\ pc = "display_grid"
    /\ \E player \in Players :
        /\ Attacks(player, 2) = 6
        /\ Rotation(player, 2) = 2 * Pi
        /\ grid[player][shipPos[player][2]] = 0

----------------------------------------------------------------------------
(* C21 *)

\* the bombs it takes to destroy a ship: 1, 2 and 3 for the first, second
\* and third ship
BombsToDestroy(ship) == ship + 1

\* the bombs it takes to destroy a fleet
BombsToDestroyFleet == BombsToDestroy(0) + BombsToDestroy(1) + BombsToDestroy(2)

\* C21: with exact counts and the ships of a player at distinct positions, no
\* game is over before the end of its sixth round: a fleet shown destroyed
\* has received at least 1, 2 and 3 attacks on its first, second and third
\* ship, and the opponent has recorded one attack per round.
C21_NoGameOverBeforeSixthRound ==
    /\ \A player \in Players : ValidPlacement(shipPos[player])
    /\ (~game \/ outcome # "none") => rounds >= BombsToDestroyFleet
    /\ Resolved =>
        \A player \in Players :
            AllDestroyed(grid, shipPos, player) =>
                /\ \A ship \in Ships : Attacks(player, ship) >= BombsToDestroy(ship)
                /\ RowSum(bomb[Opponent(player)], 5) >= BombsToDestroyFleet
                /\ rounds >= BombsToDestroyFleet

\* a game is over at the end of its sixth round, every bomb of the winner
\* having gone to a ship that still needed it
C21_Witness ==
    /\ pc = "ask_for_bombs"
    /\ ~game
    /\ rounds = BombsToDestroyFleet
    /\ \E player \in Players :
        /\ AllDestroyed(grid, shipPos, player)
        /\ \A ship \in Ships : Attacks(player, ship) = BombsToDestroy(ship)

====
